---- MODULE Spec2Model ----
(***************************************************************************)
(* Model of src/app.py: the Flask handlers create_ticket (/create-ticket)  *)
(* and zendesk_webhook (/zendesk-webhook), the outbound HTTP calls they    *)
(* issue through requests.post, and the JSON responses they return.        *)
(*                                                                         *)
(* A handler runs synchronously to completion, so each handler is one      *)
(* action.  What the two upstream services do with a call (answer with a   *)
(* status, fail at transport level, never answer) is an input of the       *)
(* request, drawn with \E and recorded in env.                             *)
(*                                                                         *)
(* Text is a sequence of one-character strings, so that str.lower() and    *)
(* the substring test of the loop guard are computed, not assumed.         *)
(***************************************************************************)
EXTENDS Integers, Sequences, FiniteSets, TLC

VARIABLES
    config,   \* CONFIG of app.py, plus the deployment's signing secret
    pc,       \* "idle" | "done" (handler returned) | "blocked" (it never will)
    req,      \* the request being (or last) handled
    env,      \* how the upstream services treat this request's calls
    resp,     \* the JSON response and HTTP code returned to the caller
    calls,    \* the outbound requests.post calls issued for this request
    served    \* number of requests the process has accepted so far

vars == <<config, pc, req, env, resp, calls, served>>

\* Bound on the number of requests accepted in one behaviour.
MaxRequests == 2

-----------------------------------------------------------------------------
(* Text values *)

\* A key that is absent from a JSON object (dict.get returns None).
Absent == <<"absent">>
Empty == <<>>

Sentinel == <<"d", "i", "s", "c", "o", "r", "d", "-">>
SupportAgent == <<"S", "u", "p", "p", "o", "r", "t", " ", "A", "g", "e", "n", "t">>
Jane == <<"J", "a", "n", "e">>
DiscordBot == <<"d", "i", "s", "c", "o", "r", "d", "-", "b", "o", "t", "9", "9">>
DiscordUpper == <<"D", "I", "S", "C", "O", "R", "D", "-", "X">>
DiscordMixed == <<"a", " ", "D", "i", "s", "C", "o", "r", "d", "-", "u">>
DiscordNoDash == <<"D", "i", "s", "c", "o", "r", "d">>
DiscDashOrd == <<"d", "i", "s", "c", "-", "o", "r", "d">>

Fyi == <<"f", "y", "i">>
Thanks == <<"T", "h", "a", "n", "k", "s", "!">>
Val == <<"v", "a", "l">>
Latest == <<"l", "c">>
Help == <<"H", "e", "l", "p">>
Broken == <<"B", "r", "o", "k", "e", "n">>
Bob == <<"b", "o", "b">>
Id7 == <<"7">>
Id42 == <<"4", "2">>
Id0 == <<"0">>
Id101 == <<"1", "0", "1">>
Unknown == <<"U", "n", "k", "n", "o", "w", "n">>
SupportRequest == <<"S", "u", "p", "p", "o", "r", "t", " ", "R", "e", "q", "u", "e", "s", "t">>
NoDescription == <<"N", "o", " ", "d", "e", "s", "c", "r", "i", "p", "t", "i", "o", "n">>
DiscordUser == <<"D", "i", "s", "c", "o", "r", "d", " ", "U", "s", "e", "r">>
CompanyDomain == <<"@", "c", "o", "m", "p", "a", "n", "y", ".", "c", "o", "m">>
NoneText == <<"N", "o", "n", "e">>

UpperAlpha ==
    <<"A", "B", "C", "D", "E", "F", "G", "H", "I", "J", "K", "L", "M",
      "N", "O", "P", "Q", "R", "S", "T", "U", "V", "W", "X", "Y", "Z">>
LowerAlpha ==
    <<"a", "b", "c", "d", "e", "f", "g", "h", "i", "j", "k", "l", "m",
      "n", "o", "p", "q", "r", "s", "t", "u", "v", "w", "x", "y", "z">>

\* str.lower() on one character.
LowerChar(c) ==
    IF \E i \in 1..26 : UpperAlpha[i] = c
    THEN LowerAlpha[CHOOSE i \in 1..26 : UpperAlpha[i] = c]
    ELSE c

\* str.lower().
Lower(s) == [i \in 1..Len(s) |-> LowerChar(s[i])]

\* Python's `sub in s` on strings.
Contains(sub, s) ==
    \E k \in 0..(Len(s) - Len(sub)) : \A i \in 1..Len(sub) : s[k + i] = sub[i]

\* str(x): None is rendered "None", a string is itself.
Str(x) == IF x = Absent THEN NoneText ELSE x

\* Truthiness of a text (or None) and of a JSON number rendered in decimal.
Truthy(x) == x # Absent /\ x # Empty
TruthyId(x) == x # Absent /\ x # Id0

\* `a or b`
Or(a, b) == IF Truthy(a) THEN a ELSE b
OrId(a, b) == IF TruthyId(a) THEN a ELSE b

\* dict.get(key, default): the default only when the key is absent.
Get(v, default) == IF v = Absent THEN default ELSE v

-----------------------------------------------------------------------------
(* CONFIG and the outbound calls *)

\* timeout=30 of the helpdesk POST, timeout=30 of the forward flow's chat POST,
\* and the requests default (no timeout argument: wait for ever).
HelpdeskTimeout == 30
ForwardTimeout == 30
NoTimeout == 0

\* What an upstream does with one call: answers with a status (and, for the
\* helpdesk, a body that holds ticket.id or not), fails at transport level
\* (DNS, connection refused, reset), or never answers.
Status(code) == [kind |-> "status", code |-> code, body_ok |-> TRUE]
Raises == [kind |-> "raise", code |-> 0, body_ok |-> TRUE]
Hangs == [kind |-> "hang", code |-> 0, body_ok |-> TRUE]
CreatedNoBody == [kind |-> "status", code |-> 201, body_ok |-> FALSE]

HelpdeskDispositions ==
    {Status(201), CreatedNoBody, Status(200), Status(401), Status(422),
     Status(500), Raises, Hangs}
ChatDispositions ==
    {Status(204), Status(200), Status(404), Status(500), Raises, Hangs}

\* requests.post(url, json=..., timeout=t): returns the response, raises
\* (a transport error, or Timeout once t has elapsed), or, without a
\* timeout and with an upstream that never answers, does not return.
Post(timeout, disposition) ==
    CASE disposition.kind = "status" ->
            [kind |-> "status", code |-> disposition.code, body_ok |-> disposition.body_ok]
      [] disposition.kind = "raise" ->
            [kind |-> "raised", code |-> 0, body_ok |-> FALSE]
      [] OTHER ->
            IF timeout = NoTimeout
            THEN [kind |-> "blocked", code |-> 0, body_ok |-> FALSE]
            ELSE [kind |-> "raised", code |-> 0, body_ok |-> FALSE]

\* One outbound call, as the handler built it.
Call(target, timeout, ticket, who, text, subject) ==
    [target |-> target, timeout |-> timeout, ticket |-> ticket,
     who |-> who, text |-> text, subject |-> subject]

\* jsonify({...}), code
Response(status, http, message, ticket, upstream) ==
    [status |-> status, http |-> http, message |-> message,
     ticket |-> ticket, upstream |-> upstream]
NoResponse == Response("none", 0, "none", Absent, 0)

\* What a handler run leaves behind.
Returned(r, cs) == [pc |-> "done", resp |-> r, calls |-> cs]
Blocked(cs) == [pc |-> "blocked", resp |-> NoResponse, calls |-> cs]

\* `except Exception as e` of either handler.
ServerError(cs) == Returned(Response("error", 500, "exception", Absent, 0), cs)

-----------------------------------------------------------------------------
(* create_ticket *)

\* A slip that takes any 2xx answer for a created ticket.
IsCreatedAny2xx(code) == code >= 200 /\ code < 300

\* response.status_code == 201
IsCreated(code) == code = 201

\* f"discord-{user}@company.com"
RequesterEmail(user) == Sentinel \o user \o CompanyDomain

\* The chat notification after a ticket was created (no timeout argument).
NotifyCreated(cfg, e, ticket_id, user, subject, zcall) ==
    IF ~cfg.discord
    THEN Returned(Response("success", 200, "created", ticket_id, 0), <<zcall>>)
    ELSE LET ncall == Call("chat", NoTimeout, ticket_id, user, Absent, subject)
             n == Post(NoTimeout, e.chat)
         IN  CASE n.kind = "blocked" -> Blocked(<<zcall, ncall>>)
               [] n.kind = "raised" -> ServerError(<<zcall, ncall>>)
               [] OTHER ->
                    Returned(Response("success", 200, "created", ticket_id, 0),
                             <<zcall, ncall>>)

\* The handler of POST /create-ticket.
CreateTicketRun(cfg, r, e) ==
    IF r.form.kind \in {"malformed", "nonobject"}
    THEN ServerError(<<>>)
    ELSE IF ~cfg.zendesk
    THEN Returned(Response("error", 500, "zendesk_not_configured", Absent, 0), <<>>)
    ELSE LET subject == Get(r.form.subject, SupportRequest)
             description == Get(r.form.description, NoDescription)
             user == Get(r.form.user, DiscordUser)
             zcall == Call("helpdesk", HelpdeskTimeout, Absent,
                           RequesterEmail(user), description, subject)
             z == Post(HelpdeskTimeout, e.zd)
         IN  IF z.kind = "blocked"
             THEN Blocked(<<zcall>>)
             ELSE IF z.kind = "raised"
             THEN ServerError(<<zcall>>)
             ELSE IF IsCreated(z.code)
             THEN IF ~z.body_ok
                  THEN ServerError(<<zcall>>)
                  ELSE NotifyCreated(cfg, e, Id101, user, subject, zcall)
             ELSE Returned(Response("error", 500, "zendesk_api_error", Absent, z.code),
                           <<zcall>>)

-----------------------------------------------------------------------------
(* zendesk_webhook *)

\* The module uses json.dumps and never imports json (imports: os, requests,
\* flask, datetime): evaluating the name raises NameError.
JsonImported == FALSE
JsonDumpsRaises == TRUE

\* A parsed request body.  kind: "malformed" (not JSON), "falsy" (null, 0,
\* "", [], {}), "nondict" (a non-empty list, a number, a string), "nested"
\* (a mapping with a `ticket` mapping), "nested_bad" (a mapping whose
\* `ticket` is not a mapping), "flat" (a non-empty mapping without `ticket`).
Payload(kind, id, body, value, name, author_name, ticket_id, comment, latest_comment, author) ==
    [kind |-> kind, id |-> id, body |-> body, value |-> value, name |-> name,
     author_name |-> author_name, ticket_id |-> ticket_id, comment |-> comment,
     latest_comment |-> latest_comment, author |-> author]

Bare(kind) ==
    Payload(kind, Absent, Absent, Absent, Absent, Absent, Absent, Absent, Absent, Absent)

\* {"raw_data": raw_data} and {"raw_data": raw_data, "error": str(e)}: a
\* mapping with none of the keys the extraction reads.
RawData == Bare("flat")

\* Lines 190-208: [raised, data].  With a JSON content type get_json()
\* raises on a malformed body and the logging line raises NameError, both
\* outside the inner try.  Otherwise get_json(force=True, silent=True)
\* yields None on a malformed body; a truthy value reaches the logging line
\* inside the inner try, whose handler replaces data.
ParseBody(r) ==
    IF r.is_json
    THEN IF r.payload.kind = "malformed" \/ JsonDumpsRaises
         THEN [raised |-> TRUE, data |-> RawData]
         ELSE [raised |-> FALSE, data |-> r.payload]
    ELSE IF r.payload.kind \in {"malformed", "falsy"}
         THEN [raised |-> FALSE, data |-> RawData]
         ELSE IF JsonDumpsRaises
              THEN [raised |-> FALSE, data |-> RawData]
              ELSE [raised |-> FALSE, data |-> r.payload]

\* Lines 221-240: the extraction, [raised, ticket_id, comment_body, author_name].
Extracted(raised, ticket_id, comment_body, author_name) ==
    [raised |-> raised, ticket_id |-> ticket_id, comment_body |-> comment_body,
     author_name |-> author_name]

Normalize(data) ==
    CASE data.kind = "nested" ->
            Extracted(FALSE, data.id, Or(data.body, data.value),
                      IF Truthy(data.name) THEN data.name
                      ELSE Get(data.author_name, SupportAgent))
      [] data.kind = "nested_bad" ->
            Extracted(TRUE, Absent, Absent, SupportAgent)
      [] data.kind = "flat" ->
            Extracted(FALSE, OrId(data.ticket_id, data.id),
                      Or(data.body, Or(data.comment, Or(data.latest_comment, data.value))),
                      Or(data.author_name, Or(data.author, SupportAgent)))
      [] OTHER ->
            Extracted(FALSE, Absent, Absent, SupportAgent)

\* The validation of the comment body left out.
HasCommentUnchecked(comment_body) == TRUE

\* `if not comment_body` is not taken.
HasComment(comment_body) == Truthy(comment_body)

\* "discord-" in str(author_name).lower()
IsLoop(author_name) == Contains(Sentinel, Lower(Str(author_name)))

\* response.status_code == 204
IsDelivered(code) == code = 204

\* Lines 266-301: build the embed, POST it, classify the answer.
Forward(e, ticket_id, author_name, comment_body) ==
    LET fcall == Call("chat", ForwardTimeout, ticket_id, Str(author_name),
                      comment_body, Absent)
        f == Post(ForwardTimeout, e.chat)
    IN  CASE f.kind = "blocked" -> Blocked(<<fcall>>)
          [] f.kind = "raised" -> ServerError(<<fcall>>)
          [] OTHER ->
                IF IsDelivered(f.code)
                THEN Returned(Response("success", 200, "sent", Absent, 0), <<fcall>>)
                ELSE Returned(Response("error", 500, "discord_api_error", Absent, f.code),
                              <<fcall>>)

\* The handler of /zendesk-webhook.
ZendeskWebhookRun(cfg, r, e) ==
    IF r.method = "GET"
    THEN Returned(Response("ready", 200, "ready", Absent, 0), <<>>)
    ELSE LET p == ParseBody(r)
             x == Normalize(p.data)
         IN  IF p.raised
             THEN ServerError(<<>>)
             ELSE IF ~cfg.discord
             THEN Returned(Response("error", 500, "discord_not_configured", Absent, 0), <<>>)
             ELSE IF x.raised
             THEN ServerError(<<>>)
             ELSE IF ~HasComment(x.comment_body)
             THEN Returned(Response("error", 400, "no_comment", Absent, 0), <<>>)
             ELSE IF IsLoop(x.author_name)
             THEN Returned(Response("success", 200, "ignored_discord", Absent, 0), <<>>)
             ELSE Forward(e, IF TruthyId(x.ticket_id) THEN x.ticket_id ELSE Unknown,
                          x.author_name, x.comment_body)

-----------------------------------------------------------------------------
(* Requests *)

\* The JSON body of POST /create-ticket.  kind: "malformed" and "nonobject"
\* (get_json() or data.get raises), "empty" (null or {}: data = {}), "object".
Form(kind, subject, description, user) ==
    [kind |-> kind, subject |-> subject, description |-> description, user |-> user]

Forms ==
    {Form(k, Absent, Absent, Absent) : k \in {"malformed", "nonobject", "empty"}}
    \cup {Form("object", s, d, u) :
            s \in {Absent, Empty, Help}, d \in {Absent, Empty, Broken}, u \in {Absent, Bob}}

AuthorNames ==
    {Absent, Empty, Jane, DiscordBot, DiscordUpper, DiscordMixed, DiscordNoDash, DiscDashOrd}

WebhookPayloads ==
    {Bare(k) : k \in {"malformed", "falsy", "nondict", "nested_bad"}}
    \cup {Payload("nested", Id42, b, v, Jane, Absent, Absent, Absent, Absent, Absent) :
            b \in {Absent, Empty, Thanks}, v \in {Absent, Val}}
    \cup {Payload("nested", i, Fyi, Absent, n, an, Absent, Absent, Absent, Absent) :
            i \in {Id7}, n \in AuthorNames, an \in {Absent, Empty, DiscordBot}}
    \cup {Payload("nested", i, Fyi, Absent, Jane, Absent, Absent, Absent, Absent, Absent) :
            i \in {Absent, Id0}}
    \cup {Payload("flat", Absent, b, v, Absent, Jane, Id7, c, lc, Absent) :
            b \in {Absent, Fyi}, v \in {Absent, Val}, c \in {Absent, Thanks},
            lc \in {Absent, Latest}}
    \cup {Payload("flat", i, Fyi, Absent, Absent, an, ti, Absent, Absent, a) :
            i \in {Absent, Id42}, ti \in {Absent, Id0, Id7},
            an \in {Absent, DiscordUpper}, a \in {Absent, Jane}}

\* The X-Zendesk-Webhook-Signature header of a request, by what a verifier
\* would find: no header, not of the form sha256=<hex>, a digest that is
\* not the HMAC-SHA256 of the body, or the digest itself.  The handler only
\* prints the headers (line 184).
Signatures == {"absent", "malformed", "mismatch", "valid"}

Request(endpoint, method, is_json, signature, payload, form) ==
    [endpoint |-> endpoint, method |-> method, is_json |-> is_json,
     signature |-> signature, payload |-> payload, form |-> form]

NoForm == Form("none", Absent, Absent, Absent)
NoRequest == Request("none", "none", FALSE, "absent", Bare("none"), NoForm)

Env(zd, chat) == [zd |-> zd, chat |-> chat]

-----------------------------------------------------------------------------
(* The process *)

\* CONFIG: for each of ZENDESK_API_TOKEN and DISCORD_WEBHOOK_URL, whether
\* the operator replaced the 'YOUR_ACTUAL...' placeholder the handlers test
\* for.  secret: whether the deployment provides a shared signing secret;
\* CONFIG has no key for it and no handler reads it.
Init ==
    /\ config \in [zendesk : BOOLEAN, discord : BOOLEAN, secret : BOOLEAN]
    /\ pc = "idle"
    /\ req = NoRequest
    /\ env = Env(Status(201), Status(204))
    /\ resp = NoResponse
    /\ calls = <<>>
    /\ served = 0

\* The worker takes a request when it is idle.
Accepting == pc = "idle" /\ served < MaxRequests

Handle(r, e, run) ==
    /\ req' = r
    /\ env' = e
    /\ pc' = run.pc
    /\ resp' = run.resp
    /\ calls' = run.calls
    /\ served' = served + 1
    /\ UNCHANGED config

create_ticket ==
    /\ Accepting
    /\ \E f \in Forms, zd \in HelpdeskDispositions, chat \in ChatDispositions :
          LET r == Request("create-ticket", "POST", TRUE, "absent", Bare("none"), f)
              e == Env(zd, chat)
          IN  Handle(r, e, CreateTicketRun(config, r, e))

zendesk_webhook ==
    /\ Accepting
    /\ \E m \in {"GET", "POST"}, j \in BOOLEAN, sig \in Signatures,
          p \in WebhookPayloads, chat \in ChatDispositions :
          /\ m = "GET" => (j = FALSE /\ sig = "absent" /\ p = Bare("falsy")
                           /\ chat = Status(204))
          /\ LET r == Request("zendesk-webhook", m, j, sig, p, NoForm)
                 e == Env(Status(201), chat)
             IN  Handle(r, e, ZendeskWebhookRun(config, r, e))

\* The handler's return value is sent and the request context is dropped;
\* a handler that did not return keeps the worker.
send_response ==
    /\ pc = "done"
    /\ pc' = "idle"
    /\ req' = NoRequest
    /\ env' = Env(Status(201), Status(204))
    /\ resp' = NoResponse
    /\ calls' = <<>>
    /\ UNCHANGED <<config, served>>

Next == create_ticket \/ zendesk_webhook \/ send_response

Spec == Init /\ [][Next]_vars

-----------------------------------------------------------------------------
(* Properties *)

\* The handler of the request in req has run.
Handled == pc \in {"done", "blocked"}
WebhookPost == Handled /\ req.endpoint = "zendesk-webhook" /\ req.method = "POST"
CreatePost == Handled /\ req.endpoint = "create-ticket"

\* The outbound calls of this request that went to the chat webhook.
ChatCalls == {i \in 1..Len(calls) : calls[i].target = "chat"}

\* What the extraction yields on the body the request carries.
ReqExtract == Normalize(req.payload)

\* The request carries a comment to forward: a mapping with a non-empty
\* comment body whose author does not contain the sentinel.
Forwardable ==
    /\ req.payload.kind \in {"nested", "flat"}
    /\ Truthy(ReqExtract.comment_body)
    /\ ~Contains(Sentinel, Lower(Str(ReqExtract.author_name)))

\* C1: a webhook POST whose extracted author name contains "discord-" in any
\* letter case, with a non-empty comment body, issues no chat POST and is
\* answered HTTP 200 with status "ignored".
C1_LoopGuardIgnored ==
    (/\ WebhookPost
     /\ req.payload.kind \in {"nested", "flat"}
     /\ Truthy(ReqExtract.comment_body)
     /\ Contains(Sentinel, Lower(Str(ReqExtract.author_name))))
    => (ChatCalls = {} /\ resp.http = 200 /\ resp.status = "ignored")

C3_NestedForwarded ==
    (/\ WebhookPost
     /\ req.is_json
     /\ req.payload.kind = "nested"
     /\ TruthyId(req.payload.id)
     /\ Forwardable
     /\ ~config.secret
     /\ config.discord
     /\ env.chat = Status(204))
    => (/\ Len(calls) = 1
        /\ calls[1].target = "chat"
        /\ calls[1].ticket = req.payload.id
        /\ calls[1].who = ReqExtract.author_name
        /\ calls[1].text = ReqExtract.comment_body
        /\ resp.status = "success"
        /\ resp.http = 200)

\* C4: a create-ticket POST whose description is the empty string is rejected
\* with an error and issues no outbound call.
C4_EmptyDescriptionRejected ==
    (CreatePost /\ req.form.kind = "object" /\ req.form.description = Empty)
    => (calls = <<>> /\ resp.status = "error")

\* C5: once the helpdesk answered the ticket-creation POST with 201 (and the
\* ticket id), the caller gets the success outcome with that id, whatever the
\* chat notification does.
C5_NotifierFailureKeepsSuccess ==
    (CreatePost /\ Len(calls) >= 1 /\ env.zd = Status(201))
    => (pc = "done" /\ resp.status = "success" /\ resp.ticket = Id101)

\* C6: when the helpdesk POST returns a status other than 201 or fails at
\* transport level, the handler returns an error carrying the upstream status
\* or the failure, and issues no chat POST.
C6_HelpdeskFailureIsError ==
    (/\ CreatePost
     /\ Len(calls) >= 1
     /\ ~(env.zd.kind = "status" /\ env.zd.code = 201))
    => (/\ pc = "done"
        /\ resp.status = "error"
        /\ resp.http = 500
        /\ IF env.zd.kind = "status"
           THEN resp.upstream = env.zd.code /\ resp.message = "zendesk_api_error"
           ELSE resp.message = "exception"
        /\ ChatCalls = {}
        /\ Len(calls) = 1)

\* C6 witness: the helpdesk answered 422 to a request that would otherwise
\* have been announced to the chat webhook.
C6_Witness ==
    /\ CreatePost
    /\ config.discord
    /\ Len(calls) = 1
    /\ calls[1].target = "helpdesk"
    /\ env.zd = Status(422)
    /\ resp.upstream = 422

\* C7: with a signing secret configured, a webhook POST whose signature
\* header is missing, malformed or not the digest of the body is rejected
\* with HTTP 401 and issues no chat POST.
C7_BadSignatureRejected ==
    (WebhookPost /\ config.secret /\ req.signature # "valid")
    => (resp.http = 401 /\ ChatCalls = {})

\* C8: a forwardable webhook POST is answered "success", 200 exactly when the
\* chat endpoint answers 200 or 204; every other status and every transport
\* failure is answered with an error.
C8_DeliveryClassification ==
    (WebhookPost /\ Forwardable /\ config.discord)
    => (/\ (resp.status = "success" /\ resp.http = 200)
            <=> env.chat \in {Status(200), Status(204)}
        /\ env.chat \notin {Status(200), Status(204)} => resp.status = "error")

\* C9: every outbound call carries a bounded timeout, so every handler
\* returns a response even when an upstream never answers.
C9_EveryCallBounded ==
    /\ \A i \in 1..Len(calls) : calls[i].timeout # NoTimeout
    /\ pc # "blocked"

\* C10: a webhook POST, whatever its body and content type, never issues the
\* chat POST and is answered with an error: 500 with a JSON content type,
\* 400 or 500 otherwise.
C10_WebhookNeverForwards ==
    WebhookPost
    => (/\ pc = "done"
        /\ calls = <<>>
        /\ resp.status = "error"
        /\ resp.http \in {400, 500}
        /\ req.is_json => (resp.http = 500 /\ resp.message = "exception")
        /\ (~req.is_json /\ config.discord)
              => (resp.http = 400 /\ resp.message = "no_comment"))

\* C10 witness: a forwardable nested payload, the chat webhook configured
\* and accepting, sent without a JSON content type, was answered 400.
C10_Witness ==
    /\ WebhookPost
    /\ Forwardable
    /\ req.payload.kind = "nested"
    /\ ~req.is_json
    /\ config.discord
    /\ env.chat = Status(204)
    /\ resp.http = 400

====
